---------------------------- MODULE Spec2Model ----------------------------
(***************************************************************************)
(* State-machine model of the two interactive point-collection scripts of  *)
(* "Project 3":                                                            *)
(*   click_painting_corners.py  (corner mode, six fixed painting images)   *)
(*   click_points.py            (correspondence mode, two fixed images)    *)
(* One run of one script is one behaviour.  The operator (console answers, *)
(* mouse clicks, ENTER, Ctrl-C) and the file system (does the image file   *)
(* exist) are the environment; their choices are the \E of the actions.    *)
(***************************************************************************)
EXTENDS Integers, Sequences, FiniteSets, TLC

(***************************************************************************)
(* Bounds of the model.                                                    *)
(***************************************************************************)
\* plt.ginput(n=-1) accepts clicks without limit; the model stops accepting
\* clicks on one image after MaxClicks.
MaxClicks == 5

\* Number of distinct pixel coordinates the operator can click in
\* correspondence mode.
NumCoords == 2

(***************************************************************************)
(* Program constants.                                                      *)
(***************************************************************************)
\* click_painting_corners.py: image_files, the six configured images.
image_files ==
  << "Christinas World", "The Starry Night", "Les Demoiselles dAvignon",
     "Dance (I)", "Girl Before a Mirror", "The Birth of the World" >>

\* click_points.py: img1_path, img2_path.
image_paths == << "image_3.png", "image_4.png" >>

\* click_painting_corners.py: plt.ginput(n=4, ...)
CornersN == 4

\* click_points.py: plt.ginput(n=-1, ...)
PointsN == -1

\* click_points.py: main calls the first capture with min_points=4.
FirstMinPoints == 4

Scripts == {"corners", "points"}

\* Console answers the operator can give to the overwrite prompt.
Responses == {"y", "Y", "n", "N", "", "yes"}
NoResponse == "<none>"

\* A Point is an (x, y) pair returned by ginput; the model names each
\* possible pair by a number.  Corner mode stores six sequences, and nothing
\* in it reads a coordinate, so one coordinate value stands for all there.
Coords(s) == IF s = "corners" THEN {1} ELSE 1..NumCoords

NoArchive == [kind |-> "absent", entries |-> <<>>]
OldArchive == [kind |-> "old", entries |-> <<>>]

VARIABLES
  script,        \* which script this run executes
  pc,            \* position of the control flow
  i,             \* corner mode: loop index of main (0-based)
  min_points,    \* click_points_on_image: parameter min_points
  points,        \* capture-local: the click list of ginput (<<>> outside)
  img,           \* latest capture: "none" | "loaded"  (plt.imread)
  fig,           \* latest capture: its window, "none" | "open" | "closed"
  open_windows,  \* number of figure windows currently open
  displayed,     \* number of figure windows opened during the run
  corner_points, \* corner mode: corner_points[0..], as a sequence
  points_img1,   \* correspondence mode: main's points_img1
  points_img2,   \* correspondence mode: main's points_img2
  raw,           \* history: what each finished ginput call returned
  started,       \* history: number of capture calls entered
  captured,      \* history: number of capture calls that returned a value
  archive,       \* the output .npz file
  writes,        \* history: number of np.savez calls
  response,      \* history: the operator's answer to the overwrite prompt
  truncated,     \* history: main took the mismatch-truncation branch
  exc,           \* exception raised out of main, or "none"
  exit,          \* "running" | "ok" | "fail"
  console        \* notable lines printed so far

vars == << script, pc, i, min_points, points, img, fig, open_windows,
           displayed, corner_points, points_img1, points_img2, raw, started,
           captured, archive, writes, response, truncated, exc, exit,
           console >>

(***************************************************************************)
(* Pure helpers.                                                           *)
(***************************************************************************)
Min(a, b) == IF a < b THEN a ELSE b

\* str.lower() on the answers of Responses.
Lower(r) ==
  CASE r = "Y" -> "y"
    [] r = "N" -> "n"
    [] OTHER -> r

\* Python slice s[:n] for n >= 0.
Prefix(s, n) == SubSeq(s, 1, Min(n, Len(s)))

\* s[:-1]
DropLast(s) == SubSeq(s, 1, Len(s) - 1)

\* ginput stops by itself once n > 0 clicks are accumulated.
GinputFull(n, pts) == n > 0 /\ Len(pts) >= n

\* ginput accepts a further click (the model's cap for n <= 0).
GinputAccepts(n, pts) == IF n > 0 THEN Len(pts) < n ELSE Len(pts) < MaxClicks

\* main, click_painting_corners.py: `if response.lower() != 'y'`
DeclinedOnlyN(r) == r = "n"
Declined(r) == Lower(r) # "y"

\* main, click_points.py: min_points=len(points_img1) for the second image
MinPointsSecondDefault(p1) == FirstMinPoints
MinPointsSecond(p1) == Len(p1)

\* click_points_on_image: `if len(points) < min_points`
TooFew(pts, m) == Len(pts) < m

NumConfigured(s) == IF s = "corners" THEN Len(image_files) ELSE Len(image_paths)

(***************************************************************************)
(* Initial state: a fresh process.  In corner mode the output archive may   *)
(* already exist (main asks before overwriting it); click_points.py never  *)
(* looks at its archive before np.savez, and starts here without one.      *)
(***************************************************************************)
Init ==
  /\ script \in Scripts
  /\ pc = "start"
  /\ i = 0
  /\ min_points = IF script = "points" THEN FirstMinPoints ELSE 0
  /\ points = <<>>
  /\ img = "none"
  /\ fig = "none"
  /\ open_windows = 0
  /\ displayed = 0
  /\ corner_points = <<>>
  /\ points_img1 = <<>>
  /\ points_img2 = <<>>
  /\ raw = <<>>
  /\ started = 0
  /\ captured = 0
  /\ archive \in IF script = "corners" THEN {NoArchive, OldArchive}
                                        ELSE {NoArchive}
  /\ writes = 0
  /\ response = NoResponse
  /\ truncated = FALSE
  /\ exc = "none"
  /\ exit = "running"
  /\ console = {}


(***************************************************************************)
(* Groups of variables, for UNCHANGED.                                     *)
(***************************************************************************)
captureVars == << points, img, fig, open_windows, displayed >>
mainVars == << i, min_points, corner_points, points_img1, points_img2 >>
historyVars == << raw, started, captured, response, truncated >>
fileVars == << archive, writes >>
endVars == << exc, exit, console >>

\* Positions at which the process is blocked waiting for the operator.
BlockingPoints == {"ask_overwrite", "prompt", "ginput"}

\* Positions inside click_corners / click_points_on_image.
InCapture == {"cap_exists", "cap_show", "ginput", "cap_end"}

(***************************************************************************)
(* Single-image capture: the steps shared by click_corners and             *)
(* click_points_on_image (the two functions have the same first half).     *)
(***************************************************************************)

\* Entering a capture call: fresh locals.
EnterCapture ==
  /\ started' = started + 1
  /\ points' = <<>>
  /\ img' = "none"
  /\ fig' = "none"
  /\ pc' = "cap_exists"

\* Faulty variant: the window is created before the path is checked.
CaptureExistsLate ==
  /\ pc = "cap_exists"
  /\ \E exists \in BOOLEAN :
       /\ fig' = "open"
       /\ open_windows' = open_windows + 1
       /\ displayed' = displayed + 1
       /\ IF exists
            THEN /\ pc' = "ginput"
                 /\ img' = "loaded"
                 /\ exc' = exc
            ELSE /\ pc' = "raised"
                 /\ img' = img
                 /\ exc' = "FileNotFoundError"
  /\ UNCHANGED << script, points, mainVars, historyVars, fileVars, exit,
                  console >>

\* `if not os.path.exists(image_path): raise FileNotFoundError(...)`
CaptureExists ==
  /\ pc = "cap_exists"
  /\ \E exists \in BOOLEAN :
       IF exists
         THEN /\ pc' = "cap_show"
              /\ exc' = exc
         ELSE /\ pc' = "raised"
              /\ exc' = "FileNotFoundError"
  /\ UNCHANGED << script, captureVars, mainVars, historyVars, fileVars, exit,
                  console >>

\* img = plt.imread(...); fig, ax = plt.subplots(...); ax.imshow(img); the
\* instructions are printed and ginput starts waiting.
CaptureShow ==
  /\ pc = "cap_show"
  /\ img' = "loaded"
  /\ fig' = "open"
  /\ open_windows' = open_windows + 1
  /\ displayed' = displayed + 1
  /\ pc' = "ginput"
  /\ UNCHANGED << script, points, mainVars, historyVars, fileVars, endVars >>

GinputN == IF script = "corners" THEN CornersN ELSE PointsN

\* ginput has returned `pts` to the capture function.
GinputReturns(pts) ==
  /\ points' = pts
  /\ raw' = Append(raw, pts)
  /\ pc' = "cap_end"

\* A left click while ginput waits: the point is appended; with n > 0 the
\* n-th click ends ginput.
GinputClick ==
  /\ pc = "ginput"
  /\ GinputAccepts(GinputN, points)
  /\ \E p \in Coords(script) :
       LET pts == Append(points, p) IN
         IF GinputFull(GinputN, pts)
           THEN GinputReturns(pts)
           ELSE /\ points' = pts
                /\ UNCHANGED << raw, pc >>
  /\ UNCHANGED << script, img, fig, open_windows, displayed, mainVars,
                  started, captured, response, truncated, fileVars, endVars >>

\* A right click while ginput waits removes the most recent point.
GinputPop ==
  /\ pc = "ginput"
  /\ Len(points) > 0
  /\ points' = DropLast(points)
  /\ UNCHANGED << script, pc, img, fig, open_windows, displayed, mainVars,
                  historyVars, fileVars, endVars >>

\* ENTER while ginput waits: ginput returns the points clicked so far.
GinputEnter ==
  /\ pc = "ginput"
  /\ GinputReturns(points)
  /\ UNCHANGED << script, img, fig, open_windows, displayed, mainVars,
                  started, captured, response, truncated, fileVars, endVars >>

(***************************************************************************)
(* click_painting_corners.py                                               *)
(***************************************************************************)

\* main: banner, then `if os.path.exists('painting_corners.npz')`.
CornersStart ==
  /\ script = "corners"
  /\ pc = "start"
  /\ pc' = IF archive.kind # "absent" THEN "ask_overwrite" ELSE "loop"
  /\ UNCHANGED << script, captureVars, mainVars, historyVars, fileVars,
                  endVars >>

\* main: response = input("... Overwrite? (y/n): ")
CornersAnswerOverwrite ==
  /\ script = "corners"
  /\ pc = "ask_overwrite"
  /\ \E r \in Responses :
       /\ response' = r
       /\ IF Declined(r)
            THEN /\ console' = console \cup {"Exiting without overwriting."}
                 /\ pc' = "returned"
            ELSE /\ console' = console
                 /\ pc' = "loop"
  /\ UNCHANGED << script, captureVars, mainVars, raw, started, captured,
                  truncated, fileVars, exc, exit >>

\* main: `for i, img_file in enumerate(image_files)`: next image, or the
\* loop is over and main goes on to np.savez.
CornersLoop ==
  /\ script = "corners"
  /\ pc = "loop"
  /\ pc' = IF i < Len(image_files) THEN "prompt" ELSE "save"
  /\ UNCHANGED << script, captureVars, mainVars, historyVars, fileVars,
                  endVars >>

\* main: input("Press Enter to start clicking ...") returns, and
\* click_corners(img_file, title) is called.
CornersPrompt ==
  /\ script = "corners"
  /\ pc = "prompt"
  /\ EnterCapture
  /\ UNCHANGED << script, open_windows, displayed, mainVars, raw, captured,
                  response, truncated, fileVars, endVars >>

ClickCornersExists ==
  /\ script = "corners"
  /\ CaptureExists

ClickCornersShow ==
  /\ script = "corners"
  /\ CaptureShow

\* Faulty variant: main saves the archive after every image (checkpointing).
ClickCornersReturnSaving ==
  /\ script = "corners"
  /\ pc = "cap_end"
  /\ fig' = "closed"
  /\ open_windows' = open_windows - 1
  /\ corner_points' = Append(corner_points, points)
  /\ captured' = captured + 1
  /\ i' = i + 1
  /\ pc' = "loop"
  /\ archive' = [kind |-> "new", entries |-> corner_points']
  /\ writes' = writes + 1
  /\ points' = <<>>
  /\ UNCHANGED << script, img, displayed, min_points, points_img1,
                  points_img2, raw, started, response, truncated, endVars >>

\* click_corners: plt.close(fig); corners = np.array(points); return corners
\* main: corner_points[i] = corners; the collected points are printed and
\* the loop advances.
ClickCornersReturn ==
  /\ script = "corners"
  /\ pc = "cap_end"
  /\ fig' = "closed"
  /\ open_windows' = open_windows - 1
  /\ corner_points' = Append(corner_points, points)
  /\ captured' = captured + 1
  /\ i' = i + 1
  /\ pc' = "loop"
  /\ points' = <<>>
  /\ UNCHANGED << script, img, displayed, min_points, points_img1,
                  points_img2, raw, started, response, truncated, fileVars,
                  endVars >>

\* main: np.savez('painting_corners.npz', corners_0=corner_points[0], ...,
\* corners_5=corner_points[5]); the summary is printed and main returns.
CornersSave ==
  /\ script = "corners"
  /\ pc = "save"
  /\ archive' = [kind |-> "new",
                 entries |-> [k \in 1..Len(image_files) |-> corner_points[k]]]
  /\ writes' = writes + 1
  /\ console' = console \cup {"ALL CORNER POINTS COLLECTED SUCCESSFULLY!"}
  /\ pc' = "returned"
  /\ UNCHANGED << script, captureVars, mainVars, historyVars, exc, exit >>


(***************************************************************************)
(* click_points.py                                                         *)
(***************************************************************************)

\* main: banner, up to input("Press Enter to start clicking points on
\* Image 3...").
PointsStart ==
  /\ script = "points"
  /\ pc = "start"
  /\ pc' = "prompt"
  /\ UNCHANGED << script, captureVars, mainVars, historyVars, fileVars,
                  endVars >>

\* main: input("Press Enter to start ...") returns and
\* click_points_on_image is called: with min_points=4 for the first image,
\* with min_points=len(points_img1) for the second.
PointsPrompt ==
  /\ script = "points"
  /\ pc = "prompt"
  /\ min_points' = IF captured = 0 THEN FirstMinPoints
                                   ELSE MinPointsSecond(points_img1)
  /\ EnterCapture
  /\ UNCHANGED << script, open_windows, displayed, i, corner_points,
                  points_img1, points_img2, raw, captured, response,
                  truncated, fileVars, endVars >>

ClickPointsExists ==
  /\ script = "points"
  /\ CaptureExists

ClickPointsShow ==
  /\ script = "points"
  /\ CaptureShow

\* click_points_on_image, after ginput:
\*   if len(points) < min_points: raise ValueError(...)
\*   plt.close(fig); return points
\* main stores the result in points_img1 (first call) or points_img2.
ClickPointsValidate ==
  /\ script = "points"
  /\ pc = "cap_end"
  /\ IF TooFew(points, min_points)
       THEN /\ exc' = "ValueError"
            /\ pc' = "raised"
            /\ UNCHANGED << fig, open_windows, captured, points_img1,
                            points_img2 >>
       ELSE /\ fig' = "closed"
            /\ open_windows' = open_windows - 1
            /\ captured' = captured + 1
            /\ exc' = exc
            /\ IF captured = 0
                 THEN /\ points_img1' = points
                      /\ points_img2' = points_img2
                      /\ pc' = "prompt"
                 ELSE /\ points_img2' = points
                      /\ points_img1' = points_img1
                      /\ pc' = "reconcile"
  /\ points' = <<>>
  /\ UNCHANGED << script, img, displayed, i, min_points, corner_points, raw,
                  started, response, truncated, fileVars, exit, console >>

\* Faulty variant: the mismatch is only warned about, nothing is truncated.
PointsReconcileWarnOnly ==
  /\ script = "points"
  /\ pc = "reconcile"
  /\ IF Len(points_img2) # Len(points_img1)
       THEN /\ console' = console \cup {"Warning: Number of points don't match!"}
            /\ truncated' = TRUE
       ELSE UNCHANGED << console, truncated >>
  /\ pc' = "save"
  /\ UNCHANGED << script, captureVars, mainVars, raw, started, captured,
                  response, fileVars, exc, exit >>

\* main: `if len(points_img2) != len(points_img1)`: warn, and cut both lists
\* to the first min(len, len) points.
PointsReconcile ==
  /\ script = "points"
  /\ pc = "reconcile"
  /\ IF Len(points_img2) # Len(points_img1)
       THEN LET n_points == Min(Len(points_img1), Len(points_img2)) IN
              /\ console' = console \cup {"Warning: Number of points don't match!"}
              /\ points_img1' = Prefix(points_img1, n_points)
              /\ points_img2' = Prefix(points_img2, n_points)
              /\ truncated' = TRUE
       ELSE UNCHANGED << console, points_img1, points_img2, truncated >>
  /\ pc' = "save"
  /\ UNCHANGED << script, captureVars, i, min_points, corner_points, raw,
                  started, captured, response, fileVars, exc, exit >>

\* main: np.savez('correspondence_points.npz', image1points=...,
\* image2points=...); the results are printed and main returns.
PointsSave ==
  /\ script = "points"
  /\ pc = "save"
  /\ archive' = [kind |-> "new", entries |-> << points_img1, points_img2 >>]
  /\ writes' = writes + 1
  /\ console' = console \cup {"POINTS COLLECTED SUCCESSFULLY!"}
  /\ pc' = "returned"
  /\ UNCHANGED << script, captureVars, mainVars, historyVars, exc, exit >>

(***************************************************************************)
(* Both scripts: the operator's Ctrl-C and the `if __name__` block.        *)
(***************************************************************************)

\* Ctrl-C while main is blocked in input() or in ginput: KeyboardInterrupt
\* propagates out of main.
Interrupt ==
  /\ pc \in BlockingPoints
  /\ exc' = "KeyboardInterrupt"
  /\ pc' = "raised"
  /\ points' = <<>>
  /\ UNCHANGED << script, img, fig, open_windows, displayed, mainVars,
                  historyVars, fileVars, exit, console >>

\* Faulty variant: every exception is swallowed with the friendly notice.
TopLevelSwallow ==
  /\ pc \in {"returned", "raised"}
  /\ pc' = "exited"
  /\ exit' = "ok"
  /\ console' = IF pc = "raised" THEN console \cup {"Interrupted by user. Exiting..."}
                                 ELSE console
  /\ UNCHANGED << script, captureVars, mainVars, historyVars, fileVars, exc >>

\* try: main()
\* except KeyboardInterrupt: print(notice)       -> the process ends normally
\* except Exception as e: print(error); raise    -> the process fails
TopLevel ==
  /\ pc \in {"returned", "raised"}
  /\ pc' = "exited"
  /\ CASE pc = "returned" ->
            /\ exit' = "ok"
            /\ console' = console
       [] pc = "raised" /\ exc = "KeyboardInterrupt" ->
            /\ exit' = "ok"
            /\ console' = console \cup {"Interrupted by user. Exiting..."}
       [] OTHER ->
            /\ exit' = "fail"
            /\ console' = console \cup {"Error"}
  /\ UNCHANGED << script, captureVars, mainVars, historyVars, fileVars, exc >>

Next ==
  \/ CornersStart
  \/ CornersAnswerOverwrite
  \/ CornersLoop
  \/ CornersPrompt
  \/ ClickCornersExists
  \/ ClickCornersShow
  \/ ClickCornersReturn
  \/ CornersSave
  \/ PointsStart
  \/ PointsPrompt
  \/ ClickPointsExists
  \/ ClickPointsShow
  \/ ClickPointsValidate
  \/ PointsReconcile
  \/ PointsSave
  \/ GinputClick
  \/ GinputPop
  \/ GinputEnter
  \/ Interrupt
  \/ TopLevel

Spec == Init /\ [][Next]_vars

TypeOK ==
  /\ script \in Scripts
  /\ pc \in {"start", "ask_overwrite", "loop", "prompt", "cap_exists",
             "cap_show", "ginput", "cap_end", "reconcile", "save",
             "returned", "raised", "exited"}
  /\ i \in 0..Len(image_files)
  /\ open_windows \in 0..1
  /\ displayed \in 0..Len(image_files)
  /\ writes \in 0..1
  /\ exit \in {"running", "ok", "fail"}
  /\ exc \in {"none", "FileNotFoundError", "ValueError", "KeyboardInterrupt"}


(***************************************************************************)
(* Properties.                                                             *)
(***************************************************************************)
Entries == archive.entries
Written == archive.kind = "new"
AcceptedAnswers == {"y", "Y"}
InterruptNotice == "Interrupted by user. Exiting..."
DeclineNotice == "Exiting without overwriting."

\* The count a capture requires: 4 in click_corners (its n), min_points in
\* click_points_on_image.
Required == IF script = "corners" THEN CornersN ELSE min_points

\* The latest capture call has got its click list back from ginput.
Finalized == started > 0 /\ Len(raw) = started

\* C1: corner mode: whenever painting_corners.npz has been written, each of
\* its six arrays corners_0..corners_5 holds exactly 4 points, whatever the
\* operator did (ENTER before the fourth click included).
C1_CornerArraysHoldFour ==
  (script = "corners" /\ Written) =>
     /\ Len(Entries) = 6
     /\ \A k \in 1..Len(Entries) : Len(Entries[k]) = 4

\* C2: correspondence mode: if the second image's capture yielded fewer
\* points than the first's, the finished run has persisted two arrays, each
\* of the minimum length and each a prefix of the raw sequence clicked on its
\* image.
C2_FewerOnSecondIsTruncatedAndSaved ==
  (/\ script = "points"
   /\ Len(raw) = 2
   /\ Len(raw[2]) < Len(raw[1])
   /\ exit # "running") =>
     /\ Written
     /\ Len(Entries[1]) = Len(raw[2])
     /\ Len(Entries[2]) = Len(raw[2])
     /\ Entries[1] = SubSeq(raw[1], 1, Len(raw[2]))
     /\ Entries[2] = raw[2]

\* C3: in both scripts, once the operator has finalized a capture with fewer
\* points than the required count and control has left the capture, the
\* capture has failed with the insufficient-input error and has returned no
\* point sequence.
C3_ShortCaptureFails ==
  (/\ Finalized
   /\ Len(raw[started]) < Required
   /\ pc \notin InCapture) =>
     /\ exc = "ValueError"
     /\ captured = started - 1

\* C4: corner mode: once the operator has answered the overwrite prompt with
\* anything but an accepted answer, main has ended, the existing archive is
\* as it was, nothing has been written, no image has been displayed and no
\* capture has started.
C4_DeclineChangesNothing ==
  (response # NoResponse /\ response \notin AcceptedAnswers) =>
     /\ pc \in {"returned", "exited"}
     /\ archive = OldArchive
     /\ writes = 0
     /\ displayed = 0
     /\ started = 0
     /\ exc = "none"
     /\ exit # "fail"

C4_Witness ==
  /\ script = "corners"
  /\ response = "yes"
  /\ exit = "ok"
  /\ DeclineNotice \in console

\* C5: in both scripts, a capture on a missing image path fails with the
\* resource-not-found error before the image is loaded or a window is opened
\* for it, and the run ends with the archive not written, whether the missing
\* image is the first or a later one.
C5_MissingImageFailsBeforeDisplay ==
  exc = "FileNotFoundError" =>
     /\ img = "none"
     /\ fig = "none"
     /\ displayed = captured
     /\ open_windows = 0
     /\ writes = 0
     /\ ~Written
     /\ pc \in {"raised", "exited"}
     /\ exit # "ok"

C5_Witness ==
  /\ exc = "FileNotFoundError"
  /\ captured > 0
  /\ exit = "fail"

\* C6: correspondence mode: whenever correspondence_points.npz has been
\* written, image1points and image2points have the same length N, and
\* N >= 4.
C6_EqualLengthsAtLeastFour ==
  (script = "points" /\ Written) =>
     /\ Len(Entries) = 2
     /\ Len(Entries[1]) = Len(Entries[2])
     /\ Len(Entries[1]) >= 4

C6_Witness ==
  /\ script = "points"
  /\ Written
  /\ Len(raw[2]) > Len(raw[1])
  /\ Len(Entries[1]) = 4

\* C7: in both scripts the archive is written at most once, only after every
\* configured image has been captured, and then holds one entry per
\* configured image; a run in which an error or an interrupt was raised, or
\* the overwrite was declined, has written nothing.
C7_WrittenOnceAfterAllImages ==
  /\ writes <= 1
  /\ (writes = 1) <=> Written
  /\ Written =>
       /\ captured = NumConfigured(script)
       /\ Len(Entries) = NumConfigured(script)
  /\ (exc # "none" \/ DeclineNotice \in console) =>
       /\ writes = 0
       /\ ~Written

C7_Witness ==
  /\ script = "corners"
  /\ Written
  /\ exit = "ok"
  /\ Len(Entries) = 6

\* C8: once control has left a capture, by a return or by the
\* insufficient-input error, no window opened by a capture is still open.
C8_WindowClosedAfterCapture ==
  (pc \notin InCapture /\ exc \in {"none", "ValueError"}) => open_windows = 0

\* C9: in both scripts an operator interrupt ends the process normally with
\* the notice printed and nothing written; any other error is logged and
\* ends the process as a failure; and once an error is raised control never
\* returns to a capture (no capture is attempted twice).
C9_TopLevelHandling ==
  /\ (exit # "running" /\ exc = "KeyboardInterrupt") =>
       /\ exit = "ok"
       /\ InterruptNotice \in console
       /\ writes = 0
  /\ (exit # "running" /\ exc \notin {"none", "KeyboardInterrupt"}) =>
       /\ exit = "fail"
       /\ "Error" \in console
       /\ InterruptNotice \notin console
  /\ exc # "none" => pc \in {"raised", "exited"}
  /\ started <= captured + 1
  /\ started <= NumConfigured(script)

C9_Witness ==
  /\ exc = "KeyboardInterrupt"
  /\ exit = "ok"
  /\ fig = "open"
  /\ captured > 0

\* C10: correspondence mode: the mismatch-truncation branch is entered only
\* when the second image has strictly more points than the first, and a
\* written archive holds the complete raw first sequence as image1points and
\* the prefix of that length of the raw second sequence as image2points.
C10_TruncationOnlyShortensSecond ==
  script = "points" =>
     /\ pc = "reconcile" => Len(points_img2) >= Len(points_img1)
     /\ truncated => Len(raw[2]) > Len(raw[1])
     /\ Written =>
          /\ Entries[1] = raw[1]
          /\ Entries[2] = SubSeq(raw[2], 1, Len(raw[1]))

C10_Witness ==
  /\ script = "points"
  /\ truncated
  /\ Written
  /\ Entries[1] = raw[1]
  /\ Entries[2] # raw[2]
  /\ exit = "ok"

=============================================================================
